---------------------------- MODULE Spec2Model ----------------------------
(***************************************************************************)
(* A model of the LXB / FCS3.0 reader of src/src/lxb.c: parse_header,      *)
(* parse_text, check_par_format, init_parameter_mask, parse_segments and   *)
(* read_lxb.  Bytes are integers 0..255; a C string is the byte sequence   *)
(* up to (not including) its first NUL byte.  A pointer is NULL (<<>>) or  *)
(* <<what it points to>>.  Spec follows calls of read_lxb step by step;    *)
(* SpecHeader, SpecText and SpecFormat apply parse_header, parse_text and  *)
(* check_par_format to inputs drawn from bounded sets.                     *)
(***************************************************************************)
EXTENDS Integers, Sequences, FiniteSets, TLC

VARIABLES
    pc,          \* position of the current read_lxb call
    buf,         \* the file buffer returned by read_file (a byte sequence)
    textFlag,    \* the caller's inTextFlag
    junk,        \* the content of memory the program never initialised
    hdr,         \* parse_segments' local fcs_header
    txt,         \* read_lxb's local txt: NULL or <<map>>
    data,        \* read_lxb's local data: NULL or <<offset of the DATA segment>>
    par_mask,    \* the process-wide mask table (line 21)
    frees,       \* how many times free(buf) ran in the current call
    ran,         \* the pipeline stages the current call has executed, in order
    failedAt,    \* the first stage of the current call that failed
    readHi,      \* one past the highest buffer offset the decoder read
    result,      \* the value read_lxb returned
    remembered,  \* history: an earlier call's input and outcome
    arg,         \* input of the function under test (function specifications)
    ret          \* its result

vars == <<pc, buf, textFlag, junk, hdr, txt, data, par_mask, frees, ran,
          failedAt, readHi, result, remembered, arg, ret>>

pipelineVars == <<pc, buf, textFlag, junk, hdr, txt, data, par_mask, frees, ran,
                  failedAt, readHi, result, remembered>>

\* read_lxb has not returned yet
NoResult == [nil |-> TRUE, data |-> <<>>, text |-> <<"none">>]

\* Max number of parameters in LXB file that we handle (line 11)
MAX_PAR == 99

ZeroMask == [i \in 0..(MAX_PAR - 1) |-> 0]

\* the state before the first call: static storage is zeroed
PipelineIdle ==
    /\ pc = "idle"
    /\ buf = <<>>
    /\ textFlag = FALSE
    /\ junk = 0
    /\ hdr = [f \in {"begin_text", "end_text", "begin_data", "end_data",
                      "begin_analysis", "end_analysis"} |-> 0]
    /\ txt = <<>>
    /\ data = <<>>
    /\ par_mask = ZeroMask
    /\ frees = 0
    /\ ran = <<>>
    /\ failedAt = "none"
    /\ readHi = 0
    /\ result = NoResult
    /\ remembered = <<>>

(***************************************************************************)
(* Characters and C strings                                                *)
(***************************************************************************)
Ord(c) ==
    CASE c = " " -> 32 [] c = "$" -> 36 [] c = "+" -> 43 [] c = "," -> 44
      [] c = "-" -> 45 [] c = "." -> 46 [] c = "/" -> 47
      [] c = "0" -> 48 [] c = "1" -> 49 [] c = "2" -> 50 [] c = "3" -> 51
      [] c = "4" -> 52 [] c = "5" -> 53 [] c = "6" -> 54 [] c = "7" -> 55
      [] c = "8" -> 56 [] c = "9" -> 57
      [] c = "A" -> 65 [] c = "B" -> 66 [] c = "C" -> 67 [] c = "D" -> 68
      [] c = "E" -> 69 [] c = "F" -> 70 [] c = "I" -> 73 [] c = "L" -> 76
      [] c = "M" -> 77 [] c = "N" -> 78 [] c = "O" -> 79 [] c = "P" -> 80
      [] c = "R" -> 82 [] c = "S" -> 83 [] c = "T" -> 84 [] c = "U" -> 85
      [] c = "Y" -> 89
      [] c = "a" -> 97 [] c = "b" -> 98 [] c = "i" -> 105 [] c = "l" -> 108
      [] c = "x" -> 120

\* the bytes of a string literal, written as a tuple of one-character strings
B(s) == [i \in 1..Len(s) |-> Ord(s[i])]

NUL == 0

IsSpace(b) == b \in {32, 9, 10, 11, 12, 13}
IsDigit(b) == b \in 48..57

\* tolower for the ASCII letters, as strcasecmp folds case
ToLower(b) == IF b \in 65..90 THEN b + 32 ELSE b

RECURSIVE FirstNul(_, _)
FirstNul(s, i) ==
    IF i > Len(s) THEN i
    ELSE IF s[i] = NUL THEN i ELSE FirstNul(s, i + 1)

\* the C string that starts at s[1]: s is followed by a terminating NUL
CStr(s) == SubSeq(s, 1, FirstNul(s, 1) - 1)

\* byte idx (1-based) of the memory that starts with b: beyond the buffer lies
\* memory the program does not own, holding whatever byte g it holds
MemByte(b, g, idx) == IF idx <= Len(b) THEN b[idx] ELSE g

(***************************************************************************)
(* sscanf(&data[off], "%8d", &x)  (lines 103-108)                          *)
(***************************************************************************)
FieldWidth == 8

RECURSIVE SkipSpace(_, _, _)
SkipSpace(b, g, i) ==
    IF IsSpace(MemByte(b, g, i)) /\ i <= Len(b) + FieldWidth
    THEN SkipSpace(b, g, i + 1) ELSE i

RECURSIVE ScanDigits(_, _, _, _, _)
ScanDigits(b, g, i, w, acc) ==
    IF w > 0 /\ IsDigit(MemByte(b, g, i))
    THEN ScanDigits(b, g, i + 1, w - 1, 10 * acc + (MemByte(b, g, i) - 48))
    ELSE [val |-> acc, next |-> i]

\* rc is sscanf's return value: 1 one item assigned, 0 matching failure,
\* -1 (EOF) end of input before any conversion; last is the highest index read
sscanf_8d(b, g, off) ==
    LET i0   == SkipSpace(b, g, off + 1)
        c0   == MemByte(b, g, i0)
        sign == c0 \in {43, 45}
        i1   == IF sign THEN i0 + 1 ELSE i0
        w1   == IF sign THEN FieldWidth - 1 ELSE FieldWidth
        d    == ScanDigits(b, g, i1, w1, 0)
    IN  IF c0 = NUL THEN [rc |-> -1, val |-> 0, first |-> i0, last |-> i0]
        ELSE IF d.next = i1 THEN [rc |-> 0, val |-> 0, first |-> i0, last |-> i1]
        ELSE [rc |-> 1, val |-> IF c0 = 45 THEN -d.val ELSE d.val,
              first |-> i0,
              last |-> IF d.next - i1 = w1 THEN d.next - 1 ELSE d.next]

(***************************************************************************)
(* parse_header  (lines 88-114)                                            *)
(***************************************************************************)
HeaderSize == 58

Magic == B(<<"F","C","S","3",".","0"," "," "," "," ">>)

\* strncmp(data, "FCS3.0    ", 10) = 0: the magic holds no NUL, so the ten
\* bytes must equal it
MagicMatches(b) == Len(b) >= Len(Magic) /\ SubSeq(b, 1, Len(Magic)) = Magic

\* ok &= rc, ok a bool and rc an int: (int)ok & rc, converted back to bool,
\* is true exactly when ok is and bit 0 of rc is set
AndAssign(ok, rc) == ok /\ (rc % 2 = 1)

FieldNames == <<"begin_text", "end_text", "begin_data", "end_data",
                "begin_analysis", "end_analysis">>

FieldOffset(k) == 10 + FieldWidth * (k - 1)

\* h0 is the caller's hdr before the call: a local that was never initialised
parse_header(b, g, size, h0) ==
    IF size < HeaderSize THEN [ok |-> FALSE, hdr |-> h0, last |-> 0]
    ELSE IF ~MagicMatches(b) THEN [ok |-> FALSE, hdr |-> h0, last |-> Len(Magic)]
    ELSE LET sc(k) == sscanf_8d(b, g, FieldOffset(k))
             fld   == [k \in 1..6 |-> IF sc(k).rc = 1 THEN sc(k).val
                                      ELSE h0[FieldNames[k]]]
             ok1 == AndAssign(TRUE, sc(1).rc)
             ok2 == AndAssign(ok1, sc(2).rc)
             ok3 == AndAssign(ok2, sc(3).rc)
             ok4 == AndAssign(ok3, sc(4).rc)
             ok5 == AndAssign(ok4, sc(5).rc)
             ok6 == AndAssign(ok5, sc(6).rc)
         IN  [ok   |-> ok6,
              hdr  |-> [begin_text |-> fld[1], end_text |-> fld[2],
                        begin_data |-> fld[3], end_data |-> fld[4],
                        begin_analysis |-> fld[5], end_analysis |-> fld[6]],
              last |-> sc(6).last]

JunkHdr(j) == [begin_text |-> j, end_text |-> j, begin_data |-> j,
               end_data |-> j, begin_analysis |-> j, end_analysis |-> j]

(***************************************************************************)
(* Decimal text, as sprintf("%d") writes it and as the header fields hold  *)
(* it                                                                      *)
(***************************************************************************)
RECURSIVE Digits(_)
Digits(n) == IF n < 10 THEN <<48 + n>> ELSE Digits(n \div 10) \o <<48 + (n % 10)>>

\* sprintf(buf, "%d", n)
Decimal(n) == IF n < 0 THEN <<45>> \o Digits(-n) ELSE Digits(n)

Spaces(n) == [i \in 1..n |-> 32]

\* an 8-character right-justified header field
Fmt8(n) == Spaces(FieldWidth - Len(Decimal(n))) \o Decimal(n)

(***************************************************************************)
(* Function specification of parse_header                                  *)
(***************************************************************************)
\* the bytes memory may hold beyond the buffer, and in an uninitialised int
JunkBytes == {0, 53, 255}
JunkInts  == {59, 60}

\* what the k-th header field may hold: its number, blanks, a letter, a NUL
FieldVariants(k) ==
    { Fmt8(60 + k),
      Spaces(FieldWidth),
      <<120>> \o Spaces(FieldWidth - 1),
      <<NUL>> \o Spaces(FieldWidth - 1) }

HeaderBuffers ==
    { SubSeq(m \o f1 \o f2 \o f3 \o f4 \o f5 \o f6 \o <<47>>, 1, n) :
        m \in {Magic, B(<<"F","C","S","2",".","0"," "," "," "," ">>)},
        f1 \in FieldVariants(1), f2 \in FieldVariants(2), f3 \in FieldVariants(3),
        f4 \in {Fmt8(64)}, f5 \in FieldVariants(5), f6 \in FieldVariants(6),
        n \in {HeaderSize - 1, HeaderSize, HeaderSize + 1} }

NotApplied == <<>>

InitHeader ==
    /\ PipelineIdle
    /\ arg \in [b : HeaderBuffers, g : JunkBytes, j : JunkInts]
    /\ ret = NotApplied

ApplyParseHeader ==
    /\ ret = NotApplied
    /\ ret' = <<parse_header(arg.b, arg.g, Len(arg.b), JunkHdr(arg.j))>>
    /\ UNCHANGED <<arg, pipelineVars>>

(***************************************************************************)
(* The map library (map_lib.h): a dictionary of C strings                  *)
(***************************************************************************)
\* a pointer is NULL or <<what it points to>>
NULL == <<>>

map_create == [k \in {} |-> <<>>]

map_set(m, key, val) ==
    [k \in DOMAIN m \cup {key} |-> IF k = key THEN val ELSE m[k]]

\* a missing key reads as the empty string
map_get(m, key) == IF key \in DOMAIN m THEN m[key] ELSE <<>>

\* the integer a string starts with (blanks, a sign, digits), 0 when none
atoi(s) ==
    LET i0   == SkipSpace(s, NUL, 1)
        c0   == MemByte(s, NUL, i0)
        sign == c0 \in {43, 45}
        d    == ScanDigits(s, NUL, IF sign THEN i0 + 1 ELSE i0, Len(s), 0)
    IN  IF c0 = 45 THEN -d.val ELSE d.val

map_get_int(m, key) == atoi(map_get(m, key))

map_length(m) == Cardinality(DOMAIN m)

(***************************************************************************)
(* parse_text  (lines 116-154)                                             *)
(***************************************************************************)
\* dup2str(buf, size): a copy of size bytes with a NUL after them, read from
\* then on as a C string
dup2str(bytes) == CStr(bytes)

RECURSIVE FirstOf(_, _, _)
FirstOf(s, delims, i) ==
    IF i > Len(s) THEN 0
    ELSE IF \E j \in 1..Len(delims) : delims[j] = s[i] THEN i
    ELSE FirstOf(s, delims, i + 1)

\* strsep(&p, sep) on p /= NULL: the token before the first delimiter and
\* the rest after it, or the whole string and NULL when there is none
strsep(s, delims) ==
    LET i == FirstOf(s, delims, 1)
    IN  IF i = 0 THEN [tok |-> s, rest |-> NULL]
        ELSE [tok |-> SubSeq(s, 1, i - 1), rest |-> <<SubSeq(s, i + 1, Len(s))>>]

\* the loop, were it to keep a trailing key with an empty value
RECURSIVE ParseLoopKeepTrailing(_, _, _)
ParseLoopKeepTrailing(p, sep, m) ==
    IF p = NULL THEN m
    ELSE LET k == strsep(p[1], sep)
         IN  IF k.rest = NULL THEN map_set(m, k.tok, <<>>)
             ELSE LET v == strsep(k.rest[1], sep)
                  IN  ParseLoopKeepTrailing(v.rest, sep, map_set(m, k.tok, v.tok))

\* the for (;;) loop of lines 136-148
RECURSIVE ParseLoop(_, _, _)
ParseLoop(p, sep, m) ==
    IF p = NULL THEN m
    ELSE LET k == strsep(p[1], sep)
         IN  IF k.rest = NULL THEN m
             ELSE LET v == strsep(k.rest[1], sep)
                  IN  ParseLoop(v.rest, sep, map_set(m, k.tok, v.tok))

\* text is the byte range [text, text + size)
parse_text(text) ==
    IF Len(text) < 2 THEN NULL
    ELSE LET sep == dup2str(SubSeq(text, 1, 1))
             dat == dup2str(SubSeq(text, 2, Len(text)))
         IN  <<ParseLoop(<<dat>>, sep, map_create)>>

(***************************************************************************)
(* Function specification of parse_text                                    *)
(***************************************************************************)
MaxTextLen == 7

TextAlphabet == {47, 97, 98, NUL}

TextRanges == UNION { [1..n -> TextAlphabet] : n \in 0..MaxTextLen }

InitText ==
    /\ PipelineIdle
    /\ arg \in TextRanges
    /\ ret = NotApplied

ApplyParseText ==
    /\ ret = NotApplied
    /\ ret' = <<parse_text(arg)>>
    /\ UNCHANGED <<arg, pipelineVars>>

(***************************************************************************)
(* The mask table and check_par_format  (lines 10-21, 58-86, 156-206)      *)
(***************************************************************************)
K_PAR      == B(<<"$","P","A","R">>)
K_TOT      == B(<<"$","T","O","T">>)
K_DATATYPE == B(<<"$","D","A","T","A","T","Y","P","E">>)
K_MODE     == B(<<"$","M","O","D","E">>)
K_BYTEORD  == B(<<"$","B","Y","T","E","O","R","D">>)
K_UNICODE  == B(<<"$","U","N","I","C","O","D","E">>)

\* parameter_key(n, type): "$P<n+1><type>", or "" for n outside 0..MAX_PAR-1
parameter_key(n, type) ==
    IF n < 0 \/ n >= MAX_PAR THEN <<>>
    ELSE B(<<"$","P">>) \o Decimal(n + 1) \o <<Ord(type)>>

\* memset(par_mask, 0, ...)
memset_par_mask(pm) == [i \in 0..(MAX_PAR - 1) |-> 0]

\* the loop of lines 75-80 on the table pm: entry i, for every i < npar, is
\* what map_get_int reads for "$P<i+1>R", less one when that is positive
FillMask(m, pm, npar) ==
    [i \in DOMAIN pm |->
        IF i < npar
        THEN LET v == map_get_int(m, parameter_key(i, "R"))
             IN  IF v > 0 THEN v - 1 ELSE v
        ELSE pm[i]]

init_parameter_mask(m, pm) ==
    FillMask(m, memset_par_mask(pm), map_get_int(m, K_PAR))

\* parameter_mask(n), reading the table pm
parameter_mask(pm, n) == IF n >= 0 /\ n < MAX_PAR THEN pm[n] ELSE 0

\* strcasecmp(a, b) = 0
strcasecmp_eq(a, b) ==
    /\ Len(a) = Len(b)
    /\ \A i \in 1..Len(a) : ToLower(a[i]) = ToLower(b[i])

\* the loop of lines 195-203 returns false at the first i < npar whose
\* "$P<i+1>B" does not read as 32
AllBits32(m, npar) ==
    \A i \in 0..(npar - 1) : map_get_int(m, parameter_key(i, "B")) = 32

\* check_par_format, were its first test npar >= MAX_PAR
check_par_format_off_by_one(m, pm) ==
    LET npar == map_get_int(m, K_PAR)
    IN  IF npar >= MAX_PAR THEN [ok |-> FALSE, par_mask |-> pm]
        ELSE IF ~strcasecmp_eq(<<73>>, map_get(m, K_DATATYPE))
             THEN [ok |-> FALSE, par_mask |-> pm]
        ELSE IF ~strcasecmp_eq(<<76>>, map_get(m, K_MODE))
             THEN [ok |-> FALSE, par_mask |-> pm]
        ELSE IF B(<<"1",",","2",",","3",",","4">>) /= map_get(m, K_BYTEORD)
             THEN [ok |-> FALSE, par_mask |-> pm]
        ELSE [ok |-> AllBits32(m, npar), par_mask |-> init_parameter_mask(m, pm)]

\* check_par_format(txt) on a map m, with the mask table pm it finds; the
\* result is its return value and the table it leaves
check_par_format(m, pm) ==
    LET npar == map_get_int(m, K_PAR)
    IN  IF npar > MAX_PAR THEN [ok |-> FALSE, par_mask |-> pm]
        ELSE IF ~strcasecmp_eq(<<73>>, map_get(m, K_DATATYPE))
             THEN [ok |-> FALSE, par_mask |-> pm]
        ELSE IF ~strcasecmp_eq(<<76>>, map_get(m, K_MODE))
             THEN [ok |-> FALSE, par_mask |-> pm]
        ELSE IF B(<<"1",",","2",",","3",",","4">>) /= map_get(m, K_BYTEORD)
             THEN [ok |-> FALSE, par_mask |-> pm]
        ELSE [ok |-> AllBits32(m, npar), par_mask |-> init_parameter_mask(m, pm)]

(***************************************************************************)
(* Function specification of check_par_format                              *)
(***************************************************************************)
RECURSIVE SetAll(_, _)
SetAll(m, kvs) ==
    IF kvs = <<>> THEN m
    ELSE SetAll(IF kvs[1][2] = NULL THEN m ELSE map_set(m, kvs[1][1], kvs[1][2][1]),
                Tail(kvs))

\* nB keys $P1B..$P<nB>B holding 32, but for $P<badB>B, which holds 16
WithBits(m, nB, badB) ==
    [k \in DOMAIN m \cup { B(<<"$","P">>) \o Decimal(n) \o <<66>> : n \in 1..nB } |->
        IF k \in DOMAIN m THEN m[k]
        ELSE IF k = B(<<"$","P">>) \o Decimal(badB) \o <<66>> THEN B(<<"1","6">>)
        ELSE B(<<"3","2">>)]

\* a value is NULL (the key is absent) or <<string>>
FormatDicts ==
    { WithBits(SetAll(map_create,
                 << <<K_PAR, <<par>>>>, <<K_DATATYPE, dt>>, <<K_MODE, mode>>,
                    <<K_BYTEORD, bo>>, <<K_UNICODE, uni>>,
                    <<B(<<"$","P","1","R">>), r1>>,
                    <<B(<<"$","P","2","R">>), <<B(<<"2","5","6">>)>>>> >>),
               bits[1], bits[2]) :
        par  \in { B(<<"0">>), B(<<"2">>), B(<<"9","9">>), B(<<"1","0","0">>),
                   B(<<"-","1">>) },
        dt   \in { NULL, <<B(<<"I">>)>>, <<B(<<"i">>)>>, <<B(<<"F">>)>> },
        mode \in { NULL, <<B(<<"L">>)>>, <<B(<<"l">>)>> },
        bo   \in { NULL, <<B(<<"1",",","2",",","3",",","4">>)>>,
                   <<B(<<"4",",","3",",","2",",","1">>)>> },
        uni  \in { NULL, <<B(<<"1">>)>> },
        r1   \in { NULL, <<B(<<"1","0","2","4">>)>>, <<B(<<"0">>)>>,
                   <<B(<<"-","5">>)>> },
        bits \in { <<0, 0>>, <<2, 0>>, <<2, 2>>, <<MAX_PAR, 0>>,
                   <<MAX_PAR, MAX_PAR>>, <<MAX_PAR + 1, 0>> } }

\* the table a call finds: all zero, or what an earlier parse left
StaleMasks == { [i \in 0..(MAX_PAR - 1) |-> v] : v \in {0, 7} }

InitFormat ==
    /\ PipelineIdle
    /\ arg \in [m : FormatDicts, pm : StaleMasks]
    /\ ret = NotApplied

ApplyCheckParFormat ==
    /\ ret = NotApplied
    /\ ret' = <<check_par_format(arg.m, arg.pm)>>
    /\ UNCHANGED <<arg, pipelineVars>>

(***************************************************************************)
(* The decoder and the result of read_lxb  (lines 263-281, 303-349)        *)
(***************************************************************************)
\* the int32_t at byte offset off, little endian; the top byte carries the sign
Word32(b, g, off) ==
    LET b3 == MemByte(b, g, off + 4)
    IN  MemByte(b, g, off + 1) + 256 * MemByte(b, g, off + 2)
        + 65536 * MemByte(b, g, off + 3)
        + 16777216 * (IF b3 >= 128 THEN b3 - 256 ELSE b3)

\* the n low bits of x & y; \div rounds down, so x \div 2 is x >> 1 and
\* x % 2 is bit 0 also for a negative x
RECURSIVE AndBits(_, _, _)
AndBits(x, y, n) ==
    IF n = 0 THEN 0
    ELSE (x % 2) * (y % 2) + 2 * AndBits(x \div 2, y \div 2, n - 1)

\* x & y on two's-complement 32-bit ints: 31 value bits and the sign bit
BitAnd32(x, y) ==
    IF x < 0 /\ y < 0 THEN AndBits(x, y, 31) - 2147483647 - 1
    ELSE AndBits(x, y, 31)

\* line 333: (int)*src & parameter_mask(i%npar)
MaskedValue(raw, mask) == BitAnd32(raw, mask)

\* lines 310-333: the matrix read from byte offset off of the buffer
DecodeMatrix(b, g, off, m, pm) ==
    LET npar == map_get_int(m, K_PAR)
        ntot == map_get_int(m, K_TOT)
    IN  [npar     |-> npar,
         ntot     |-> ntot,
         rownames |-> [i \in 1..npar |-> map_get(m, parameter_key(i - 1, "N"))],
         vals     |-> [i \in 1..(ntot * npar) |->
                         MaskedValue(Word32(b, g, off + 4 * (i - 1)),
                                     parameter_mask(pm, (i - 1) % npar))]]

\* set_key_f: the key without its leading dollar sign
StripDollar(k) == IF Len(k) > 0 /\ k[1] = 36 THEN Tail(k) ELSE k

\* map_to_Rlist: one named string per entry of the map
map_to_Rlist(m) == [k \in DOMAIN m |-> [name |-> StripDollar(k), value |-> m[k]]]

R_NilValue == [nil |-> TRUE, data |-> NULL, text |-> NULL]

\* the list, were the text slot filled only beside a matrix
ResultDropsTextWithoutMatrix(flag, m, mat) ==
    [nil  |-> FALSE,
     data |-> mat,
     text |-> IF flag /\ mat /= NULL THEN <<map_to_Rlist(m)>> ELSE NULL]

\* the list read_lxb returns (lines 303-349): slot "data", and slot "text"
\* when the text flag is set; mat is NULL or <<matrix>>
ResultList(flag, m, mat) ==
    [nil  |-> FALSE,
     data |-> mat,
     text |-> IF flag THEN <<map_to_Rlist(m)>> ELSE NULL]

\* lines 242 and 255: a segment [begin, end) lies in a buffer of size bytes
SegmentLocated(begin, end, size) == end - begin > 0 /\ begin > 0 /\ end <= size

(***************************************************************************)
(* Input files                                                             *)
(***************************************************************************)
RECURSIVE Flatten(_)
Flatten(ss) == IF ss = <<>> THEN <<>> ELSE ss[1] \o Flatten(Tail(ss))

\* a TEXT segment: the delimiter '/', then every key and value followed by it
RECURSIVE TextOf(_)
TextOf(kvs) ==
    IF kvs = <<>> THEN <<47>>
    ELSE TextOf(SubSeq(kvs, 1, Len(kvs) - 1))
         \o kvs[Len(kvs)][1] \o <<47>> \o kvs[Len(kvs)][2] \o <<47>>

LE32(n) == <<n % 256, (n \div 256) % 256, (n \div 65536) % 256,
             (n \div 16777216) % 256>>

Bytes1234 == B(<<"1",",","2",",","3",",","4">>)

\* the metadata of a supported file with one parameter
Meta(tot, bo, extra) ==
    << <<K_PAR, B(<<"1">>)>>, <<K_DATATYPE, B(<<"I">>)>>, <<K_MODE, B(<<"L">>)>>,
       <<K_BYTEORD, bo>>, <<K_TOT, tot>>,
       <<B(<<"$","P","1","B">>), B(<<"3","2">>)>>,
       <<B(<<"$","P","1","N">>), B(<<"F","S","C">>)>> >> \o extra

Meta2 ==
    << <<K_PAR, B(<<"2">>)>>, <<K_DATATYPE, B(<<"i">>)>>, <<K_MODE, B(<<"l">>)>>,
       <<K_BYTEORD, Bytes1234>>, <<K_TOT, B(<<"1">>)>>,
       <<B(<<"$","P","1","B">>), B(<<"3","2">>)>>,
       <<B(<<"$","P","2","B">>), B(<<"3","2">>)>>,
       <<B(<<"$","P","1","R">>), B(<<"2","5","6">>)>>,
       <<B(<<"$","P","2","R">>), B(<<"1","6">>)>> >>

R1024 == << <<B(<<"$","P","1","R">>), B(<<"1","0","2","4">>)>> >>

\* header, TEXT at [58, 58 + Len(text)), DATA right after it; dEnd and tEnd
\* move the declared ends of the two segments
FileOf(magic, text, words, tEnd, dEnd) ==
    LET bt == HeaderSize
        et == bt + Len(text)
        dd == Flatten([i \in 1..Len(words) |-> LE32(words[i])])
    IN  magic \o Fmt8(bt) \o Fmt8(et + tEnd) \o Fmt8(et) \o Fmt8(et + Len(dd) + dEnd)
        \o Fmt8(0) \o Fmt8(0) \o text \o dd

GoodFile == FileOf(Magic, TextOf(Meta(B(<<"2">>), Bytes1234, R1024)), <<1124, 200>>, 0, 0)

\* GoodFile with a NUL where the begin_text field starts
NulFieldFile ==
    [i \in 1..Len(GoodFile) |-> IF i = FieldOffset(1) + 1 THEN NUL ELSE GoodFile[i]]

Files ==
    { GoodFile,
      FileOf(Magic, TextOf(Meta(B(<<"2">>), B(<<"4",",","3",",","2",",","1">>), R1024)),
             <<1124, 200>>, 0, 0),
      FileOf(B(<<"F","C","S","2",".","0"," "," "," "," ">>),
             TextOf(Meta(B(<<"2">>), Bytes1234, R1024)), <<1124, 200>>, 0, 0),
      SubSeq(GoodFile, 1, HeaderSize - 1),
      FileOf(Magic, TextOf(Meta(B(<<"2">>), Bytes1234, R1024)), <<>>, 1, 0),
      FileOf(Magic, <<47>>, <<1124, 200>>, 0, 0),
      FileOf(Magic, TextOf(Meta(B(<<"2">>), Bytes1234, R1024)), <<1124, 200>>, 0, 1),
      FileOf(Magic, TextOf(Meta(B(<<"3">>), Bytes1234, R1024)), <<1124, 200>>, 0, 0),
      FileOf(Magic, TextOf(Meta(B(<<"2">>), Bytes1234, <<>>)), <<-1, 5>>, 0, 0),
      FileOf(Magic, TextOf(Meta(B(<<"-","1">>), Bytes1234, R1024)), <<1124, 200>>, 0, 0),
      FileOf(Magic, TextOf(Meta2), <<511, 31>>, 0, 0),
      NulFieldFile }

(***************************************************************************)
(* read_lxb and parse_segments, step by step  (lines 229-261, 283-357)     *)
(***************************************************************************)
Fail(stage) == IF failedAt = "none" THEN stage ELSE failedAt

\* lines 283-297 and 231-232: read_file, then parse_segments clears the slots
ReadLxb ==
    /\ pc = "idle"
    /\ \E f \in Files \cup {<<>>}, flag \in BOOLEAN, ji \in JunkInts :
         /\ textFlag' = flag
         /\ buf' = f
         /\ hdr' = JunkHdr(ji)
         /\ IF Len(f) > 0
            THEN /\ pc' = "parse_header"
                 /\ failedAt' = "none"
                 /\ result' = NoResult
            ELSE /\ pc' = "returned"
                 /\ failedAt' = "ByteSource"
                 /\ result' = R_NilValue
    /\ ran' = <<"ByteSource">>
    /\ txt' = NULL
    /\ data' = NULL
    /\ frees' = 0
    /\ readHi' = 0
    /\ junk' = 0
    /\ UNCHANGED <<par_mask, remembered, arg, ret>>

\* lines 234-239
ParseHeader ==
    /\ pc = "parse_header"
    /\ \E g \in JunkBytes :
         LET r == parse_header(buf, g, Len(buf), hdr)
         IN  /\ hdr' = r.hdr
             /\ pc' = IF r.ok THEN "text_bounds" ELSE "after_segments"
             /\ failedAt' = IF r.ok THEN failedAt ELSE Fail("HeaderParser")
    /\ ran' = Append(ran, "HeaderParser")
    /\ UNCHANGED <<buf, textFlag, junk, txt, data, par_mask, frees, readHi, result,
                   remembered, arg, ret>>

\* lines 241-246
LocateText ==
    /\ pc = "text_bounds"
    /\ ran' = Append(ran, "TextBounds")
    /\ IF SegmentLocated(hdr.begin_text, hdr.end_text, Len(buf))
       THEN /\ pc' = "parse_text"
            /\ UNCHANGED <<frees, failedAt>>
       ELSE /\ frees' = frees + 1
            /\ failedAt' = Fail("TextBounds")
            /\ pc' = "after_segments"
    /\ UNCHANGED <<buf, textFlag, junk, hdr, txt, data, par_mask, readHi, result,
                   remembered, arg, ret>>

\* lines 248-249
ParseText ==
    /\ pc = "parse_text"
    /\ ran' = Append(ran, "MetadataParser")
    /\ txt' = parse_text(SubSeq(buf, hdr.begin_text + 1, hdr.end_text))
    /\ failedAt' = IF txt' = NULL THEN Fail("MetadataParser") ELSE failedAt
    /\ pc' = "check_par_format"
    /\ UNCHANGED <<buf, textFlag, junk, hdr, data, par_mask, frees, readHi, result,
                   remembered, arg, ret>>

\* lines 251-252; with txt = NULL the map library is handed a null map, which
\* it may read as an empty one or fault on
CheckParFormat ==
    /\ pc = "check_par_format"
    /\ ran' = Append(ran, "FormatValidator")
    /\ IF txt = NULL
       THEN /\ \/ pc' = "crashed"
               \/ pc' = IF check_par_format(map_create, par_mask).ok
                        THEN "data_bounds" ELSE "after_segments"
            /\ UNCHANGED <<par_mask, failedAt>>
       ELSE LET r == check_par_format(txt[1], par_mask)
            IN  /\ par_mask' = r.par_mask
                /\ pc' = IF r.ok THEN "data_bounds" ELSE "after_segments"
                /\ failedAt' = IF r.ok THEN failedAt ELSE Fail("FormatValidator")
    /\ UNCHANGED <<buf, textFlag, junk, hdr, txt, data, frees, readHi, result,
                   remembered, arg, ret>>

\* lines 254-260
LocateData ==
    /\ pc = "data_bounds"
    /\ ran' = Append(ran, "DataBounds")
    /\ IF SegmentLocated(hdr.begin_data, hdr.end_data, Len(buf))
       THEN /\ data' = <<hdr.begin_data>>
            /\ UNCHANGED failedAt
       ELSE /\ failedAt' = Fail("DataBounds")
            /\ UNCHANGED data
    /\ pc' = "after_segments"
    /\ UNCHANGED <<buf, textFlag, junk, hdr, txt, par_mask, frees, readHi, result,
                   remembered, arg, ret>>

\* lines 298-301; freeing a buffer that is already free is undefined: the
\* allocator may abort the process or carry on
AfterSegments ==
    /\ pc = "after_segments"
    /\ IF txt = NULL
       THEN /\ frees' = frees + 1
            /\ result' = R_NilValue
            /\ \/ pc' = "returned"
               \/ frees >= 1 /\ pc' = "crashed"
       ELSE /\ pc' = "build"
            /\ UNCHANGED <<frees, result>>
    /\ UNCHANGED <<buf, textFlag, junk, hdr, txt, data, par_mask, ran, failedAt,
                   readHi, remembered, arg, ret>>

\* lines 303-356; allocMatrix raises an R error on a negative extent, and
\* control then leaves read_lxb
BuildResult ==
    /\ pc = "build"
    /\ IF data = NULL
       THEN /\ result' = ResultList(textFlag, txt[1], NULL)
            /\ frees' = frees + 1
            /\ pc' = "returned"
            /\ UNCHANGED <<ran, readHi, junk>>
       ELSE /\ ran' = Append(ran, "DataDecoder")
            /\ IF map_get_int(txt[1], K_PAR) < 0 \/ map_get_int(txt[1], K_TOT) < 0
               THEN /\ pc' = "r_error"
                    /\ UNCHANGED <<result, frees, readHi, junk>>
               ELSE \E g \in JunkBytes :
                      LET mat == DecodeMatrix(buf, g, data[1], txt[1], par_mask)
                      IN  /\ readHi' = data[1] + 4 * mat.ntot * mat.npar
                          /\ junk' = IF readHi' > Len(buf) THEN g ELSE 0
                          /\ result' = ResultList(textFlag, txt[1], <<mat>>)
                          /\ frees' = frees + 1
                          /\ pc' = "returned"
    /\ UNCHANGED <<buf, textFlag, hdr, txt, data, par_mask, failedAt, remembered,
                   arg, ret>>

\* read_lxb has returned (or raised): the caller may call again; remembered
\* keeps one earlier call's input and outcome
Return ==
    /\ pc \in {"returned", "r_error"}
    /\ pc' = "idle"
    /\ \/ UNCHANGED remembered
       \/ /\ pc = "returned"
          /\ remembered' = << [buf |-> buf, textFlag |-> textFlag, result |-> result] >>
    /\ UNCHANGED <<buf, textFlag, junk, hdr, txt, data, par_mask, frees, ran,
                   failedAt, readHi, result, arg, ret>>

Init == PipelineIdle /\ arg = NULL /\ ret = NotApplied

Next ==
    \/ ReadLxb
    \/ ParseHeader
    \/ LocateText
    \/ ParseText
    \/ CheckParFormat
    \/ LocateData
    \/ AfterSegments
    \/ BuildResult
    \/ Return

Spec == Init /\ [][Next]_vars

SpecHeader == InitHeader /\ [][ApplyParseHeader]_vars

SpecText == InitText /\ [][ApplyParseText]_vars

SpecFormat == InitFormat /\ [][ApplyCheckParFormat]_vars

(***************************************************************************)
(* Properties of parse_header (checked under SpecHeader)                   *)
(***************************************************************************)
\* the k-th field alone: its own 8 bytes, read as a string that ends there
OwnField(b, k) == sscanf_8d(SubSeq(b, FieldOffset(k) + 1, FieldOffset(k) + FieldWidth), NUL, 0)

\* C9: parse_header succeeds exactly when the buffer holds at least 58 bytes,
\* starts with the FCS3.0 magic and each of the six fields parses as an integer
\* from its own 8 bytes (a field that matches nothing or hits the end of input
\* makes it fail); on success every bound was assigned from its own field.
C9_ParseHeaderContract ==
    ret /= NotApplied =>
        /\ ret[1].ok <=> /\ Len(arg.b) >= HeaderSize
                         /\ MagicMatches(arg.b)
                         /\ \A k \in 1..6 : OwnField(arg.b, k).rc = 1
        /\ ret[1].ok => \A k \in 1..6 :
                            ret[1].hdr[FieldNames[k]] = OwnField(arg.b, k).val

(***************************************************************************)
(* Properties of parse_text (checked under SpecText)                       *)
(***************************************************************************)
Positions(s, d) == { i \in 1..Len(s) : s[i] = d }

\* the j-th smallest element of the set P of numbers
Nth(P, j) == CHOOSE i \in P : Cardinality({ x \in P : x < i }) = j - 1

\* s split on every occurrence of the byte d
Tokens(s, d) ==
    LET P == Positions(s, d)
        n == Cardinality(P) + 1
    IN  [j \in 1..n |->
            SubSeq(s, IF j = 1 THEN 1 ELSE Nth(P, j - 1) + 1,
                      IF j = n THEN Len(s) ELSE Nth(P, j) - 1)]

\* tokens taken two by two as (key, value); the last pair with a key wins
PairsDict(toks) ==
    LET n == Len(toks) \div 2
        last(k) == CHOOSE j \in 1..n :
                      /\ toks[2 * j - 1] = k
                      /\ \A i \in (j + 1)..n : toks[2 * i - 1] /= k
    IN  [k \in { toks[2 * j - 1] : j \in 1..n } |-> toks[2 * last(k)]]

\* buffers built from pairs of delimiter-free tokens with distinct keys, with
\* and without a delimiter after the last value, and the dictionary of each
RoundTripTokens == { <<>>, <<97>>, <<98>>, <<97, 98>> }

RoundTripPairs ==
    { ps \in UNION { [1..n -> RoundTripTokens \X RoundTripTokens] : n \in 1..2 } :
        \A i, j \in 1..Len(ps) : i /= j => ps[i][1] /= ps[j][1] }

RoundTrips ==
    { [text |-> SubSeq(TextOf(ps), 1, Len(TextOf(ps)) - cut),
       dict |-> [k \in { ps[i][1] : i \in 1..Len(ps) } |->
                   (CHOOSE p \in { ps[i] : i \in 1..Len(ps) } : p[1] = k)[2]]] :
        ps \in RoundTripPairs, cut \in {0, 1} }

\* C10 as stated: on a range of at least 2 bytes parse_text splits everything
\* after the first byte on that byte and takes the tokens as (key, value)
\* pairs (a trailing token is dropped, a later pair overwrites an earlier one,
\* a doubled delimiter yields an empty token); a shorter range yields no
\* dictionary.
C10_SplitsWholeRange ==
    ret /= NotApplied =>
        ret[1] = IF Len(arg) < 2 THEN NULL
                 ELSE <<PairsDict(Tokens(SubSeq(arg, 2, Len(arg)), arg[1]))>>

\* C10, amended: the same, of the bytes after the first byte up to the first
\* NUL byte among them (the whole rest when there is none); and a buffer
\* built from delimiter-free, NUL-free pairs with distinct keys parses back to
\* exactly that dictionary.
C10_SplitsUpToFirstNul ==
    ret /= NotApplied =>
        /\ ret[1] = IF Len(arg) < 2 THEN NULL
                    ELSE <<PairsDict(Tokens(CStr(SubSeq(arg, 2, Len(arg))), arg[1]))>>
        /\ \A rt \in RoundTrips : arg = rt.text => ret[1] = <<rt.dict>>

\* a range with a NUL byte in it, a doubled delimiter and two pairs parsed
C10_Witness ==
    /\ ret /= NotApplied
    /\ ret[1] /= NULL
    /\ \E i \in 3..Len(arg) : arg[i] = NUL
    /\ \E i \in 2..(Len(arg) - 1) : arg[i] = arg[1] /\ arg[i + 1] = arg[1]
    /\ map_length(ret[1][1]) = 2

(***************************************************************************)
(* Properties of check_par_format and the mask table (under SpecFormat)    *)
(***************************************************************************)
BitsKey(n)  == B(<<"$","P">>) \o Decimal(n) \o <<66>>
RangeKey(n) == B(<<"$","P">>) \o Decimal(n) \o <<82>>

\* the first four checks of check_par_format pass, so the table is built
Supported(m) ==
    /\ map_get_int(m, K_PAR) <= 99
    /\ map_get(m, K_DATATYPE) \in { <<73>>, <<105>> }
    /\ map_get(m, K_MODE) \in { <<76>>, <<108>> }
    /\ map_get(m, K_BYTEORD) = Bytes1234

Accepted(m) ==
    /\ Supported(m)
    /\ \A n \in 1..map_get_int(m, K_PAR) : map_get_int(m, BitsKey(n)) = 32

\* m with $UNICODE set to "1" when it is absent, and removed when it is there
ToggleUnicode(m) ==
    IF K_UNICODE \in DOMAIN m THEN [k \in DOMAIN m \ {K_UNICODE} |-> m[k]]
    ELSE map_set(m, K_UNICODE, <<49>>)

\* C7: check_par_format accepts a dictionary exactly when $PAR <= 99,
\* $DATATYPE is "I" and $MODE is "L" in either case, $BYTEORD is "1,2,3,4" and
\* $PnB is 32 for every n in 1..PAR; a missing $DATATYPE, $MODE or $BYTEORD
\* rejects, and $UNICODE never changes the answer.
C7_AcceptsExactlySupported ==
    ret /= NotApplied =>
        /\ ret[1].ok <=> Accepted(arg.m)
        /\ (\E k \in {K_DATATYPE, K_MODE, K_BYTEORD} : k \notin DOMAIN arg.m)
              => ~ret[1].ok
        /\ check_par_format(ToggleUnicode(arg.m), arg.pm).ok = ret[1].ok

\* a dictionary with $PAR = 99 and a $UNICODE flag is accepted
C7_Witness ==
    /\ ret /= NotApplied
    /\ ret[1].ok
    /\ map_get_int(arg.m, K_PAR) = 99
    /\ K_UNICODE \in DOMAIN arg.m

\* C8: once the table is built for a dictionary, each of its 99 entries is a
\* non-negative integer: entry i < PAR is $P{i+1}R - 1 when that is present
\* and positive and 0 otherwise, and every entry from PAR on is 0.
C8_MaskEntries ==
    (ret /= NotApplied /\ Supported(arg.m)) =>
        /\ DOMAIN ret[1].par_mask = 0..98
        /\ \A i \in 0..98 :
              LET r == map_get_int(arg.m, RangeKey(i + 1))
              IN  /\ ret[1].par_mask[i] >= 0
                  /\ ret[1].par_mask[i] =
                        IF i < map_get_int(arg.m, K_PAR) /\ r > 0 THEN r - 1 ELSE 0

(***************************************************************************)
(* Properties of read_lxb (checked under Spec)                             *)
(***************************************************************************)
\* C1: when parse_text produced a dictionary and check_par_format or the DATA
\* bounds check then failed, read_lxb returns a list whose matrix slot is
\* empty and, with the text flag set, whose metadata slot is the dictionary
\* parsed from the TEXT segment.
C1_PartialSuccess ==
    (pc = "returned" /\ txt /= NULL /\ failedAt \in {"FormatValidator", "DataBounds"})
    => /\ ~result.nil
       /\ result.data = NULL
       /\ textFlag =>
            result.text =
              << [k \in DOMAIN txt[1] |->
                    [name |-> StripDollar(k), value |-> map_get(txt[1], k)]] >>
       /\ txt = parse_text(SubSeq(buf, hdr.begin_text + 1, hdr.end_text))

\* an unsupported byte order, metadata asked for and returned
C1_Witness ==
    /\ pc = "returned"
    /\ failedAt = "FormatValidator"
    /\ textFlag
    /\ result.text /= NULL
    /\ result.data = NULL
    /\ map_length(txt[1]) > 5

\* C2: the buffer read_file returned is released exactly once on every exit
\* path: never twice, and never left unreleased.
C2_BufferFreedExactlyOnce ==
    /\ frees <= 1
    /\ (pc \in {"returned", "r_error"} /\ Len(buf) > 0) => frees = 1

\* C3: the matrix value at flattened index k is raw AND mask[k mod PAR] when
\* that mask is non-zero, and the raw value itself when the mask is 0.
C3_ZeroMaskPassesThrough ==
    (pc = "returned" /\ result.data /= NULL) =>
        LET mat == result.data[1]
        IN  \A k \in 0..(Len(mat.vals) - 1) :
               LET raw  == Word32(buf, junk, data[1] + 4 * k)
                   mask == par_mask[k % mat.npar]
               IN  mat.vals[k + 1] = IF mask /= 0 THEN BitAnd32(raw, mask) ELSE raw

\* C4: the decoder reads at most PAR x TOT elements from begin_data on and
\* no byte at or beyond end_data, nor beyond the end of the buffer.
C4_DecoderStaysInSegment ==
    (pc = "returned" /\ result.data /= NULL) =>
        /\ Len(result.data[1].vals) <= map_get_int(txt[1], K_PAR) * map_get_int(txt[1], K_TOT)
        /\ readHi <= hdr.end_data
        /\ readHi <= Len(buf)

\* C5: a failure at ByteSource, HeaderParser, the TEXT bounds check or
\* MetadataParser aborts the pipeline: no later stage runs after the failing
\* one, and read_lxb returns the empty result.
C5_EarlyFailureAborts ==
    failedAt \in {"ByteSource", "HeaderParser", "TextBounds", "MetadataParser"} =>
        /\ ran[Len(ran)] = failedAt
        /\ pc = "returned" => result = R_NilValue

\* C6: the outcome of a parse is a function of the file's bytes and the text
\* flag: a call on the input of an earlier call returns what that call did.
C6_OutcomeDependsOnInputOnly ==
    (pc = "returned" /\ remembered /= NULL
        /\ remembered[1].buf = buf /\ remembered[1].textFlag = textFlag)
    => remembered[1].result = result

\* (part of C6) whenever the decoder is about to run, the process-wide table
\* is the one built from the current file's metadata alone
MaskRebuiltBeforeDecode ==
    (pc = "build" /\ data /= NULL) =>
        par_mask = init_parameter_mask(txt[1], [i \in 0..(MAX_PAR - 1) |-> 1])
=============================================================================
